---- MODULE Spec2Model ----
(***************************************************************************)
(* Darwin's Rockets: the World / Population / Rocket core of the genetic   *)
(* algorithm (src/darwins_rockets/{world,population,rocket}.py).           *)
(*                                                                         *)
(* Numbers.  The program computes in IEEE doubles.  The model computes in  *)
(* fixed point: lengths (pos, vel, acc, radii, distances) are integers in  *)
(* units of 1/Scale, fitness values are integers in units of 1/FitScale,   *)
(* normalised fitness values in units of 1/NormScale, probabilities in     *)
(* percent.  Every product or quotient is rounded to that grid.            *)
(***************************************************************************)
EXTENDS Integers, Sequences, FiniteSets, TLC

(***************************************************************************)
(* Bounds of the model (constructor arguments and the run length).         *)
(***************************************************************************)
Width == 1
Height == 50
PopulationSize == 2
DnaLength == 2
MaxGenerations == 2
MaxUpdates == 52            \* direct Rocket.update calls on one rocket
MaxLen == 3                 \* genome length of a direct DNA method call
MaxAgents == 3              \* rockets handed to a direct Population method call

(***************************************************************************)
(* Fixed-point grids.                                                      *)
(***************************************************************************)
Scale == 100
FitScale == 1000
NormScale == 1000

(***************************************************************************)
(* Program constants (RocketConfig, World).                                *)
(***************************************************************************)
MAX_TRAIL_LENGTH == 50
VELOCITY_DAMPING == 98
MAX_VELOCITY == 10
TARGET_RADIUS == 20
FITNESS_TARGET_REWARD == 1000
FITNESS_BONUS_PER_STEP == 10
OUT_OF_BOUNDS_PENALTY == 10
START_Y_OFFSET == 50
EXTRA_STEPS == 50
DEFAULT_TARGET_RADIUS == 20
Inf == 999999999
None == -1

VARIABLES
    mutation_rate,        \* World.mutation_rate / Population.mutation_rate (percent)
    dnas,                 \* Population.dnas: one genome per start position
    rockets,              \* the Rocket entities of World.entities, in list order
    target_entities,      \* the Target entities of World.entities, in list order
    target,               \* World.target: a Target record, or NoTarget
    current_generation,   \* World.current_generation
    generation_step,      \* World.generation_step
    stats,                \* World.stats
    arrivals,             \* history: number of _handle_target_reached calls so far
    last_evolution,       \* history: how the last step() ended a generation, if it did
    update_log,           \* history: Rocket.pos after each direct Rocket.update call
    call                  \* a direct call of a DNA or Population method: its
                          \* operation, its arguments and its result

vars == <<mutation_rate, dnas, rockets, target_entities, target,
          current_generation, generation_step, stats, arrivals, last_evolution,
          update_log, call>>

----------------------------------------------------------------------------
(***************************************************************************)
(* Arithmetic helpers.                                                     *)
(***************************************************************************)

\* a / b rounded to the nearest grid point (b > 0)
RoundDiv(a, b) == (2 * a + b) \div (2 * b)

RECURSIVE SqrtSearch(_, _, _)
SqrtSearch(n, lo, hi) ==
    IF lo >= hi THEN lo
    ELSE LET mid == (lo + hi) \div 2
         IN IF mid * mid >= n THEN SqrtSearch(n, lo, mid)
            ELSE SqrtSearch(n, mid + 1, hi)

Abs(x) == IF x < 0 THEN -x ELSE x

\* np.linalg.norm / math.hypot: the Euclidean norm, rounded up to the grid so
\* that a comparison  norm <= r  against a grid value r is exact; the norm
\* lies between the larger component and the sum of the components
Norm(v) ==
    LET a == Abs(v[1])
        b == Abs(v[2])
    IN SqrtSearch(a * a + b * b, IF a > b THEN a ELSE b, a + b)

VecAdd(a, b) == <<a[1] + b[1], a[2] + b[2]>>
VecSub(a, b) == <<a[1] - b[1], a[2] - b[2]>>
Zero2 == <<0, 0>>

RECURSIVE SeqSum(_)
SeqSum(s) == IF s = <<>> THEN 0 ELSE Head(s) + SeqSum(Tail(s))

RECURSIVE SeqMin(_)
SeqMin(s) == IF Len(s) = 1 THEN s[1]
             ELSE LET m == SeqMin(Tail(s)) IN IF s[1] < m THEN s[1] ELSE m

RECURSIVE SeqMax(_)
SeqMax(s) == IF Len(s) = 1 THEN s[1]
             ELSE LET m == SeqMax(Tail(s)) IN IF s[1] > m THEN s[1] ELSE m

----------------------------------------------------------------------------
(***************************************************************************)
(* Random inputs.                                                          *)
(***************************************************************************)

\* DNA.random_gene: a thrust vector of magnitude 0.5 pointing along +y, or
\* along -x
Genes == {<<0, 50>>, <<-50, 0>>}

\* random.random() in [0, 1), in percent
RandomDraws == {0, 99}

\* the mutation rates a World is constructed with, in percent
MutationRates == {0, 50}

\* DNA.random(length)
RandomDNA(length) == [1..length -> Genes]

\* the mutation rates DNA.mutate is called with directly, in percent
DirectRates == {0, 50, 100}

\* the rocket.fitness values Population methods are called with directly:
\* 0, a distance fitness just outside the arrival radius (0.049), 5.0, and a
\* success fitness (1010.0)
FitnessValues == {0, 49, 5 * FitScale, 1010 * FitScale}

----------------------------------------------------------------------------
(***************************************************************************)
(* DNA: crossover and mutation.                                            *)
(***************************************************************************)

\* a crossover that skips the gene at the split point
CrossoverSkipsGene(genes, other, point) ==
    SubSeq(genes, 1, point) \o SubSeq(other, point + 2, Len(other))

\* a crossover that appends the first genes of the other parent instead of
\* its genes from the split point on
CrossoverRealigns(genes, other, point) ==
    SubSeq(genes, 1, point) \o SubSeq(other, 1, Len(other) - point)

\* a crossover that takes the head from the other parent and the tail from
\* this one
CrossoverSwapsParents(genes, other, point) ==
    SubSeq(other, 1, point) \o SubSeq(genes, point + 1, Len(genes))

\* DNA.crossover with random.randint(0, len - 1) = point
Crossover(genes, other, point) ==
    SubSeq(genes, 1, point) \o SubSeq(other, point + 1, Len(other))

\* the values random.randint(0, len(self.genes) - 1) returns in DNA.crossover
CrossoverPoints(genes) == 0..(Len(genes) - 1)

\* DNA.mutate: draws[j] is the j-th random.random(), fresh[j] the gene
\* random_gene() returns at position j if it is called there
Mutate(genes, rate, draws, fresh) ==
    [j \in 1..Len(genes) |-> IF draws[j] < rate THEN fresh[j] ELSE genes[j]]

\* a mutate that appends the gene itself where it does not redraw
MutateObjectsShares(heap, genes, rate, draws, fresh) ==
    LET base == Len(heap)
    IN [heap |-> heap \o [j \in 1..Len(genes) |->
                             IF draws[j] < rate THEN fresh[j] ELSE heap[genes[j]]],
        genes |-> [j \in 1..Len(genes) |->
                     IF draws[j] < rate THEN base + j ELSE genes[j]]]

\* DNA.mutate on gene objects: heap[ref] is the value of the array ref, genes
\* the list of refs of self.genes. Each loop iteration allocates one new
\* array, by random_gene() or by gene.copy(), and appends it.
MutateObjects(heap, genes, rate, draws, fresh) ==
    LET base == Len(heap)
    IN [heap |-> heap \o [j \in 1..Len(genes) |->
                             IF draws[j] < rate THEN fresh[j] ELSE heap[genes[j]]],
        genes |-> [j \in 1..Len(genes) |-> base + j]]

----------------------------------------------------------------------------
(***************************************************************************)
(* Rocket.                                                                 *)
(***************************************************************************)

\* Rocket.__init__ followed by the assignments of World._spawn_generation
\* (rocket.dna, rocket.current_step); born is the generation that spawned it
NewRocket(start_pos, dna_length, dna, born) ==
    [pos |-> start_pos, vel |-> Zero2, acc |-> Zero2,
     dna_length |-> dna_length, dna |-> dna, current_step |-> 0,
     fitness |-> 0, has_reached_target |-> FALSE, target_reached_step |-> None,
     trail |-> <<>>, is_active |-> TRUE, born |-> born]

\* Vector2D.limit_magnitude
LimitMagnitude(vector, max_magnitude) ==
    LET magnitude == Norm(vector)
    IN IF vector[1] * vector[1] + vector[2] * vector[2] > max_magnitude * max_magnitude
       THEN <<RoundDiv(vector[1] * max_magnitude, magnitude),
              RoundDiv(vector[2] * max_magnitude, magnitude)>>
       ELSE vector

\* Vector2D.safe_distance
SafeDistance(pos1, pos2) == Norm(VecSub(pos1, pos2))

\* a thrust that uses its gene up: it zeroes the gene it has applied
ApplyThrustUsesGeneUp(r) ==
    IF r.current_step < r.dna_length
    THEN [r EXCEPT !.acc = r.dna[r.current_step + 1],
                   !.current_step = r.current_step + 1,
                   !.dna = [r.dna EXCEPT ![r.current_step + 1] = Zero2]]
    ELSE [r EXCEPT !.acc = Zero2]

\* Rocket._apply_thrust
ApplyThrust(r) ==
    IF r.current_step < r.dna_length
    THEN [r EXCEPT !.acc = r.dna[r.current_step + 1],
                   !.current_step = r.current_step + 1]
    ELSE [r EXCEPT !.acc = Zero2]

\* Rocket._update_physics
UpdatePhysics(r) ==
    LET v1 == VecAdd(r.vel, r.acc)
        v2 == <<RoundDiv(v1[1] * VELOCITY_DAMPING, 100),
                RoundDiv(v1[2] * VELOCITY_DAMPING, 100)>>
        v3 == LimitMagnitude(v2, MAX_VELOCITY * Scale)
    IN [r EXCEPT !.vel = v3, !.pos = VecAdd(r.pos, v3)]

\* a trail that evicts as soon as it holds MAX_TRAIL_LENGTH positions
UpdateTrailEvictsEarly(r) ==
    LET appended == Append(r.trail, r.pos)
    IN [r EXCEPT !.trail = IF Len(appended) >= MAX_TRAIL_LENGTH
                           THEN Tail(appended) ELSE appended]

\* Rocket._update_trail
UpdateTrail(r) ==
    LET appended == Append(r.trail, r.pos)
    IN [r EXCEPT !.trail = IF Len(appended) > MAX_TRAIL_LENGTH
                           THEN Tail(appended) ELSE appended]

\* Rocket.update (_check_world_interactions does nothing)
Update(r) ==
    IF ~r.is_active THEN r
    ELSE UpdateTrail(UpdatePhysics(ApplyThrust(r)))

\* Rocket._handle_target_reached
HandleTargetReached(r) ==
    [r EXCEPT !.has_reached_target = TRUE,
              !.target_reached_step = r.current_step]

\* a success fitness that is the efficiency bonus alone, without the reward
CalculateSuccessFitnessBonusOnly(r) ==
    IF r.target_reached_step # None
    THEN (r.dna_length - r.target_reached_step) * FITNESS_BONUS_PER_STEP * FitScale
    ELSE 0

\* Rocket._calculate_success_fitness
CalculateSuccessFitness(r) ==
    LET base_reward == FITNESS_TARGET_REWARD * FitScale
    IN IF r.target_reached_step # None
       THEN LET steps_remaining == r.dna_length - r.target_reached_step
            IN base_reward + steps_remaining * FITNESS_BONUS_PER_STEP * FitScale
       ELSE base_reward

\* 1 / eps, saturated at the top of the fitness grid
MaxFitness == 2000000000

\* Rocket._calculate_distance_fitness: 1 / (distance + eps); eps is below
\* the grid, so it only matters at distance 0
CalculateDistanceFitness(distance) ==
    IF distance = 0 THEN MaxFitness
    ELSE RoundDiv(FitScale * Scale, distance)

\* an arrival test that forgets the rocket has already arrived
ArrivedAgain(r, distance_to_target) ==
    distance_to_target <= TARGET_RADIUS * Scale

\* the arrival test of Rocket.evaluate_fitness
ArrivedNow(r, distance_to_target) ==
    distance_to_target <= TARGET_RADIUS * Scale /\ ~r.has_reached_target

\* Rocket.evaluate_fitness
EvaluateFitness(r, target_pos) ==
    LET distance_to_target == SafeDistance(r.pos, target_pos)
        r1 == IF ArrivedNow(r, distance_to_target)
              THEN HandleTargetReached(r) ELSE r
    IN IF r1.has_reached_target
       THEN [r1 EXCEPT !.fitness = CalculateSuccessFitness(r1)]
       ELSE [r1 EXCEPT !.fitness = CalculateDistanceFitness(distance_to_target)]

\* whether evaluate_fitness calls _handle_target_reached
Arrives(r, target_pos) == ArrivedNow(r, SafeDistance(r.pos, target_pos))

----------------------------------------------------------------------------
(***************************************************************************)
(* Population.                                                             *)
(***************************************************************************)

\* a normalisation that divides by the maximum instead of the range
GetNormalizedFitnessesOverMax(fitnesses) ==
    LET min_fitness == IF fitnesses # <<>> THEN SeqMin(fitnesses) ELSE 0
        max_fitness == IF fitnesses # <<>> THEN SeqMax(fitnesses) ELSE FitScale
    IN IF max_fitness > min_fitness
       THEN [i \in 1..Len(fitnesses) |->
                ((fitnesses[i] - min_fitness) * NormScale) \div max_fitness]
       ELSE [i \in 1..Len(fitnesses) |-> NormScale]

\* a normalisation that gives 0.0 to everyone when all fitnesses are equal
GetNormalizedFitnessesTieZero(fitnesses) ==
    LET min_fitness == IF fitnesses # <<>> THEN SeqMin(fitnesses) ELSE 0
        max_fitness == IF fitnesses # <<>> THEN SeqMax(fitnesses) ELSE FitScale
    IN IF max_fitness > min_fitness
       THEN [i \in 1..Len(fitnesses) |->
                ((fitnesses[i] - min_fitness) * NormScale) \div (max_fitness - min_fitness)]
       ELSE [i \in 1..Len(fitnesses) |-> 0]

\* Population._get_normalized_fitnesses, on the list of rocket.fitness
GetNormalizedFitnesses(fitnesses) ==
    LET min_fitness == IF fitnesses # <<>> THEN SeqMin(fitnesses) ELSE 0
        max_fitness == IF fitnesses # <<>> THEN SeqMax(fitnesses) ELSE FitScale
    IN IF max_fitness > min_fitness
       THEN [i \in 1..Len(fitnesses) |->
                ((fitnesses[i] - min_fitness) * NormScale) \div (max_fitness - min_fitness)]
       ELSE [i \in 1..Len(fitnesses) |-> NormScale]

\* the loop of roulette_wheel_select: the first index (0-based) from i on at
\* which the running sum reaches pick, else the last index
RECURSIVE RouletteWalk(_, _, _, _)
RouletteWalk(normalized, pick, i, current) ==
    IF i > Len(normalized) THEN Len(normalized) - 1
    ELSE IF current + normalized[i] >= pick THEN i - 1
    ELSE RouletteWalk(normalized, pick, i + 1, current + normalized[i])

\* a loop that passes an index whose running sum only equals pick
RECURSIVE RouletteWalkStrict(_, _, _, _)
RouletteWalkStrict(normalized, pick, i, current) ==
    IF i > Len(normalized) THEN Len(normalized) - 1
    ELSE IF current + normalized[i] > pick THEN i - 1
    ELSE RouletteWalkStrict(normalized, pick, i + 1, current + normalized[i])

\* a roulette_wheel_select that compares the running sum with > pick
RouletteWheelSelectStrict(fitnesses, rand_index, pick) ==
    IF fitnesses = <<>> THEN None
    ELSE LET normalized == GetNormalizedFitnesses(fitnesses)
             fitness_sum == SeqSum(normalized)
         IN IF fitness_sum = 0 THEN rand_index
            ELSE RouletteWalkStrict(normalized, pick, 1, 0)

\* Population.roulette_wheel_select: rand_index is what random.randint(0,
\* len - 1) returns, pick what random.uniform(0, fitness_sum) returns
RouletteWheelSelect(fitnesses, rand_index, pick) ==
    IF fitnesses = <<>> THEN None
    ELSE LET normalized == GetNormalizedFitnesses(fitnesses)
             fitness_sum == SeqSum(normalized)
         IN IF fitness_sum = 0 THEN rand_index
            ELSE RouletteWalk(normalized, pick, 1, 0)

\* the values random.uniform(0, fitness_sum) is drawn from: both ends and
\* every running sum, which between them select every selectable index
UniformDraws(normalized) ==
    {0} \cup {SeqSum(SubSeq(normalized, 1, i)) : i \in 1..Len(normalized)}

\* values of random.uniform(0, fitness_sum) for a direct call: both ends,
\* every running sum and the grid points next to each
DirectPicks(normalized) ==
    {p \in UNION {{c - 1, c, c + 1} : c \in UniformDraws(normalized)} :
        p >= 0 /\ p <= SeqSum(normalized)}

\* the indices roulette_wheel_select can return for a list of fitnesses
SelectableIndices(fitnesses) ==
    IF fitnesses = <<>> THEN {None}
    ELSE {RouletteWheelSelect(fitnesses, ri, pick) :
             ri \in 0..(Len(fitnesses) - 1),
             pick \in UniformDraws(GetNormalizedFitnesses(fitnesses))}

\* the child genomes one iteration of Population.next_generation can append
ChildDNAs(rs, dna_length, rate) ==
    LET fitnesses == [i \in 1..Len(rs) |-> rs[i].fitness]
        indices == SelectableIndices(fitnesses)
    IN IF None \in indices THEN RandomDNA(dna_length)
       ELSE UNION {
              {Mutate(Crossover(rs[p[1] + 1].dna, rs[p[2] + 1].dna, point),
                      rate, draws, fresh) :
                  point \in 0..(Len(rs[p[1] + 1].dna) - 1),
                  draws \in [1..dna_length -> RandomDraws],
                  fresh \in [1..dna_length -> Genes]} :
              p \in indices \X indices}

\* Population.next_generation: the lists self.dnas can be assigned
NextGeneration(rs, n_slots, dna_length, rate) ==
    IF rs = <<>> THEN [1..n_slots -> RandomDNA(dna_length)]
    ELSE [1..n_slots -> ChildDNAs(rs, dna_length, rate)]

----------------------------------------------------------------------------
(***************************************************************************)
(* World.                                                                  *)
(***************************************************************************)

\* World.target is None
NoTarget == [pos |-> Zero2, radius |-> None]

\* Target.__init__
NewTarget(pos, radius) == [pos |-> pos, radius |-> radius]

\* World.start_positions
StartPositions ==
    [i \in 1..PopulationSize |->
        <<((i * Width) \div (PopulationSize + 1)) * Scale,
          (Height - START_Y_OFFSET) * Scale>>]

\* a step cap one short of the genome length, without the slack
MaxStepsOneShort == DnaLength - 1

\* World.max_steps_per_generation
MaxStepsPerGeneration == DnaLength + EXTRA_STEPS

\* World.stats as World.__init__ sets it
InitialStats ==
    [total_rockets_reached_target |-> 0,
     best_distance_achieved |-> Inf,
     rockets_reached_current_gen |-> 0,
     best_fitness_current_gen |-> 0,
     best_fitness_all_time |-> 0,
     current_generation |-> 0,
     generation_complete |-> FALSE]

\* the rockets World._spawn_generation appends, from Population.get_dnas()
SpawnRockets(dna_sequences, born) ==
    [i \in 1..(IF Len(dna_sequences) < PopulationSize
               THEN Len(dna_sequences) ELSE PopulationSize) |->
        NewRocket(StartPositions[i], DnaLength, dna_sequences[i], born)]

\* a spawn that keeps the rockets of the generation that ended
PurgeNothing(rs) == rs

\* the list comprehension of World._spawn_generation: the entities kept
PurgeRockets(rs) == <<>>

\* the counters and flags World._spawn_generation resets
SpawnStats(st, generation) ==
    [st EXCEPT !.current_generation = generation,
               !.generation_complete = FALSE]

\* the bounds test of World._calculate_rocket_stats
OutOfBounds(r) ==
    \/ r.pos[1] < 0 \/ r.pos[1] > Width * Scale
    \/ r.pos[2] < 0 \/ r.pos[2] > Height * Scale

\* rocket.fitness *= 0.1
Penalised(fitness) == RoundDiv(fitness, OUT_OF_BOUNDS_PENALTY)

\* a penalty applied to every rocket, in bounds or not
ApplyPenaltyEverywhere(r) == [r EXCEPT !.fitness = Penalised(r.fitness)]

\* the out-of-bounds penalty of World._calculate_rocket_stats, for one
\* rocket that evaluate_fitness has just scored
ApplyPenalty(r) ==
    IF OutOfBounds(r) THEN [r EXCEPT !.fitness = Penalised(r.fitness)] ELSE r

\* what World._calculate_rocket_stats adds to total_rockets_reached_target
ReachedIncrement(rockets_reached) == rockets_reached

\* World._calculate_rocket_stats: the rockets and the stats it leaves
CalculateRocketStats(rs, tgt, st) ==
    IF tgt = NoTarget \/ rs = <<>> THEN [rockets |-> rs, stats |-> st]
    ELSE LET evaluated == [i \in 1..Len(rs) |-> EvaluateFitness(rs[i], tgt.pos)]
             dists == [i \in 1..Len(rs) |-> SafeDistance(rs[i].pos, tgt.pos)]
             best_dist == IF SeqMin(dists) < Inf THEN SeqMin(dists) ELSE Inf
             rockets_reached ==
                 Cardinality({i \in 1..Len(rs) : evaluated[i].has_reached_target})
             fits == [i \in 1..Len(rs) |-> evaluated[i].fitness]
             best_fitness == IF SeqMax(fits) > 0 THEN SeqMax(fits) ELSE 0
         IN [rockets |-> [i \in 1..Len(rs) |-> ApplyPenalty(evaluated[i])],
             stats |-> [st EXCEPT
                 !.best_distance_achieved = best_dist,
                 !.rockets_reached_current_gen = rockets_reached,
                 !.best_fitness_current_gen = best_fitness,
                 !.total_rockets_reached_target =
                     IF rockets_reached > 0
                     THEN @ + ReachedIncrement(rockets_reached) ELSE @]]

\* a test that keeps a rocket running until its fuel is gone, arrived or not
StillHasFuel(r) == r.current_step < r.dna_length

\* the per-rocket test of World._should_end_generation: still running
StillRunning(r) == r.current_step < r.dna_length /\ ~r.has_reached_target

\* World._should_end_generation
ShouldEndGeneration(rs, step) ==
    \/ rs = <<>>
    \/ step >= MaxStepsPerGeneration
    \/ \A i \in 1..Len(rs) : ~StillRunning(rs[i])

\* a final fitness pass that does not test whether a target is set, and
\* measures from the origin when there is none
FinalEvaluationUnguarded(rs, tgt) ==
    [i \in 1..Len(rs) |-> EvaluateFitness(rs[i], tgt.pos)]

\* the final fitness pass of World._end_generation
FinalEvaluation(rs, tgt) ==
    IF tgt # NoTarget
    THEN [i \in 1..Len(rs) |-> EvaluateFitness(rs[i], tgt.pos)]
    ELSE rs

\* the all-time best fitness World._end_generation leaves
BestAllTime(rs, best) ==
    LET fits == [i \in 1..Len(rs) |-> rs[i].fitness]
    IN IF rs # <<>> /\ SeqMax(fits) > best THEN SeqMax(fits) ELSE best

\* World.add_entity of a Target: the target entities and World.target
AddEntity(ents, tgt, entity) ==
    [entities |-> Append(ents, entity), target |-> entity]

RECURSIVE RemoveFirst(_, _)
RemoveFirst(s, e) ==
    IF s = <<>> THEN s
    ELSE IF Head(s) = e THEN Tail(s)
    ELSE <<Head(s)>> \o RemoveFirst(Tail(s), e)

\* a remove_entity that forgets the target but leaves it in the list
RemoveEntityLeavesIt(ents, tgt, entity) ==
    [entities |-> ents, target |-> IF entity = tgt THEN NoTarget ELSE tgt]

\* World.remove_entity of a Target
RemoveEntity(ents, tgt, entity) ==
    IF \E i \in 1..Len(ents) : ents[i] = entity
    THEN [entities |-> RemoveFirst(ents, entity),
          target |-> IF entity = tgt THEN NoTarget ELSE tgt]
    ELSE [entities |-> ents, target |-> tgt]

\* World.set_target
SetTargetResult(ents, tgt, x, y, radius) ==
    LET removed == IF tgt # NoTarget THEN RemoveEntity(ents, tgt, tgt)
                   ELSE [entities |-> ents, target |-> tgt]
    IN AddEntity(removed.entities, removed.target, NewTarget(<<x, y>>, radius))

\* World.is_generation_complete
IsGenerationComplete == stats.generation_complete

\* World.get_generation_progress, in 1/NormScale and rounded down: it is
\* NormScale exactly when the function returns 1.0
GetGenerationProgress ==
    IF MaxStepsPerGeneration <= 0 THEN NormScale
    ELSE LET ratio == (generation_step * NormScale) \div MaxStepsPerGeneration
         IN IF ratio < NormScale THEN ratio ELSE NormScale

\* the arguments set_target is called with: a target 20.4 below the first
\* start row with the default radius, one 10 below it with radius 5, and one
\* 25 below it with radius 30
TargetChoices ==
    {[x |-> 0, y |-> (Height - START_Y_OFFSET) * Scale + (204 * Scale) \div 10,
      radius |-> DEFAULT_TARGET_RADIUS * Scale],
     [x |-> 0, y |-> (Height - START_Y_OFFSET) * Scale + 10 * Scale,
      radius |-> 5 * Scale],
     [x |-> 0, y |-> (Height - START_Y_OFFSET) * Scale + 25 * Scale,
      radius |-> 30 * Scale]}

----------------------------------------------------------------------------
(***************************************************************************)
(* State machine.                                                          *)
(***************************************************************************)

\* last_evolution after a step() that ended no generation
NoEvolution == [finished |-> None, steps |-> None, dnas |-> "kept"]

\* last_evolution after a step() that ended a generation: the number of
\* rockets it ended with, the step it ended at, and what became of
\* Population.dnas: "kept" (_end_generation returned before next_generation),
\* "random" or "bred" (the two branches of next_generation)
Evolution(rs, step) ==
    [finished |-> Len(rs), steps |-> step,
     dnas |-> IF rs = <<>> THEN "random" ELSE "bred"]

\* no DNA or Population method is called directly
NoCall == [op |-> "none"]

\* the early return of World._end_generation
EndsWithoutEvolving(rs) == rs = <<>>

\* World.__init__, which ends with _spawn_generation
Init ==
    /\ mutation_rate \in MutationRates
    /\ dnas \in [1..PopulationSize -> RandomDNA(DnaLength)]
    /\ rockets = SpawnRockets(dnas, 1)
    /\ target_entities = <<>>
    /\ target = NoTarget
    /\ current_generation = 1
    /\ generation_step = 0
    /\ stats = SpawnStats(InitialStats, 1)
    /\ arrivals = 0
    /\ last_evolution = NoEvolution
    /\ update_log = <<>>
    /\ call = NoCall

\* the state of step() after the updates and _calculate_rocket_stats
AfterStats ==
    CalculateRocketStats([i \in 1..Len(rockets) |-> Update(rockets[i])],
                         target, stats)

\* whether the next step() ends the generation
EndsGeneration == ShouldEndGeneration(AfterStats.rockets, generation_step + 1)

\* the rockets _end_generation hands to Population.next_generation
FinishedRockets == FinalEvaluation(AfterStats.rockets, target)

\* the number of _handle_target_reached calls that turn rockets before into
\* rockets after (the same rockets, later)
NewArrivals(before, after) ==
    Cardinality({i \in 1..Len(before) :
                    ~before[i].has_reached_target /\ after[i].has_reached_target})

\* World.step
Step ==
    /\ current_generation <= MaxGenerations
    /\ LET after == AfterStats
           ends == ShouldEndGeneration(after.rockets, generation_step + 1)
           finished == FinalEvaluation(after.rockets, target)
       IN  IF ends
           THEN /\ IF EndsWithoutEvolving(after.rockets)
                   THEN /\ dnas' = dnas
                        /\ last_evolution' =
                               [Evolution(after.rockets, generation_step + 1)
                                   EXCEPT !.dnas = "kept"]
                        /\ stats' = SpawnStats(after.stats, current_generation + 1)
                        /\ arrivals' = arrivals + NewArrivals(rockets, after.rockets)
                   ELSE /\ dnas' \in NextGeneration(finished, PopulationSize,
                                                    DnaLength, mutation_rate)
                        /\ last_evolution' = Evolution(finished, generation_step + 1)
                        /\ stats' = SpawnStats(
                               [after.stats EXCEPT
                                   !.best_fitness_all_time = BestAllTime(finished, @),
                                   !.generation_complete = TRUE],
                               current_generation + 1)
                        /\ arrivals' = arrivals + NewArrivals(rockets, finished)
                /\ rockets' = PurgeRockets(after.rockets)
                                  \o SpawnRockets(dnas', current_generation + 1)
                /\ generation_step' = 0
                /\ current_generation' = current_generation + 1
           ELSE /\ rockets' = after.rockets
                /\ stats' = after.stats
                /\ generation_step' = generation_step + 1
                /\ arrivals' = arrivals + NewArrivals(rockets, after.rockets)
                /\ last_evolution' = NoEvolution
                /\ UNCHANGED <<dnas, current_generation>>
    /\ UNCHANGED <<mutation_rate, target_entities, target, update_log, call>>

\* World.set_target(x, y, radius)
SetTarget ==
    \E t \in TargetChoices :
        LET res == SetTargetResult(target_entities, target, t.x, t.y, t.radius)
        IN /\ target_entities' = res.entities
           /\ target' = res.target
           /\ UNCHANGED <<mutation_rate, dnas, rockets, current_generation,
                          generation_step, stats, arrivals, last_evolution,
                          update_log, call>>

\* World.remove_entity(rocket), for a rocket of World.entities
RemoveRocket ==
    \E i \in 1..Len(rockets) :
        /\ rockets' = SubSeq(rockets, 1, i - 1) \o SubSeq(rockets, i + 1, Len(rockets))
        /\ UNCHANGED <<mutation_rate, dnas, target_entities, target,
                       current_generation, generation_step, stats, arrivals,
                       last_evolution, update_log, call>>

\* a World driven through step() and set_target()
Next == Step \/ SetTarget

Spec == Init /\ [][Next]_vars

\* a World whose caller also removes rockets
NextEntities == Step \/ SetTarget \/ RemoveRocket

SpecEntities == Init /\ [][NextEntities]_vars

\* Rocket(start_pos, dna_length): one rocket on its own, with a random genome
InitRocket ==
    /\ \E length \in 0..DnaLength : \E dna \in RandomDNA(length) :
          rockets = <<NewRocket(StartPositions[1], length, dna, 1)>>
    /\ update_log = <<>>
    /\ mutation_rate = 0
    /\ dnas = <<>>
    /\ target_entities = <<>>
    /\ target = NoTarget
    /\ current_generation = 0
    /\ generation_step = 0
    /\ stats = InitialStats
    /\ arrivals = 0
    /\ last_evolution = NoEvolution
    /\ call = NoCall

\* Rocket.update(world), called on the rocket directly
UpdateRocket ==
    /\ Len(update_log) < MaxUpdates
    /\ rockets' = <<Update(rockets[1])>>
    /\ update_log' = Append(update_log, rockets'[1].pos)
    /\ UNCHANGED <<mutation_rate, dnas, target_entities, target,
                   current_generation, generation_step, stats, arrivals,
                   last_evolution, call>>

\* one Rocket updated again and again, also after its genome is used up
SpecRocket == InitRocket /\ [][UpdateRocket]_vars

\* the direct calls DNA(a).crossover(DNA(b)), with the split point drawn
CrossoverCalls ==
    UNION {{[op |-> "crossover", genes |-> a, other |-> b, point |-> k,
             done |-> FALSE, result |-> <<>>] :
               a \in RandomDNA(length), b \in RandomDNA(length),
               k \in CrossoverPoints([j \in 1..length |-> Zero2])} :
           length \in 1..MaxLen}

\* the direct calls DNA(genes).mutate(rate), with the draws: the genes are
\* the arrays 1..length of the heap, input their values at the call
MutateCalls ==
    UNION {{[op |-> "mutate", heap |-> values, input |-> values,
             genes |-> [j \in 1..length |-> j], rate |-> rate,
             draws |-> draws, fresh |-> fresh,
             done |-> FALSE, written |-> FALSE, result |-> <<>>] :
               values \in RandomDNA(length), rate \in DirectRates,
               draws \in [1..length -> RandomDraws],
               fresh \in RandomDNA(length)} :
           length \in 1..MaxLen}

\* the lists of rocket.fitness a Population method is called with directly
FitnessLists == UNION {[1..n -> FitnessValues] : n \in 0..MaxAgents}

\* the direct calls Population._get_normalized_fitnesses(rockets)
NormalizeCalls ==
    {[op |-> "normalize", fitnesses |-> fs, done |-> FALSE, result |-> <<>>] :
        fs \in FitnessLists}

\* the direct calls Population.roulette_wheel_select(rockets), with the draws
SelectCalls ==
    UNION {{[op |-> "select", fitnesses |-> fs, rand_index |-> ri, pick |-> pick,
             done |-> FALSE, result |-> None] :
               ri \in 0..(IF fs = <<>> THEN 0 ELSE Len(fs) - 1),
               pick \in DirectPicks(GetNormalizedFitnesses(fs))} :
           fs \in FitnessLists}

\* a DNA or Population method about to be called on its own, outside a World
InitCalls ==
    /\ call \in CrossoverCalls \cup MutateCalls \cup NormalizeCalls \cup SelectCalls
    /\ rockets = <<>>
    /\ update_log = <<>>
    /\ mutation_rate = 0
    /\ dnas = <<>>
    /\ target_entities = <<>>
    /\ target = NoTarget
    /\ current_generation = 0
    /\ generation_step = 0
    /\ stats = InitialStats
    /\ arrivals = 0
    /\ last_evolution = NoEvolution

\* everything but the call: no World is involved
world_vars == <<mutation_rate, dnas, rockets, target_entities, target,
                current_generation, generation_step, stats, arrivals,
                last_evolution, update_log>>

\* DNA.crossover
CallCrossover ==
    /\ call.op = "crossover" /\ ~call.done
    /\ call' = [call EXCEPT !.done = TRUE,
                            !.result = Crossover(call.genes, call.other, call.point)]
    /\ UNCHANGED world_vars

\* DNA.mutate
CallMutate ==
    /\ call.op = "mutate" /\ ~call.done
    /\ LET res == MutateObjects(call.heap, call.genes, call.rate,
                                call.draws, call.fresh)
       IN call' = [call EXCEPT !.done = TRUE, !.heap = res.heap,
                               !.result = res.genes]
    /\ UNCHANGED world_vars

\* the caller changes a gene of the returned genome in place
WriteGene ==
    /\ call.op = "mutate" /\ call.done
    /\ \E j \in 1..Len(call.result) : \E g \in Genes :
          /\ call.heap[call.result[j]] # g
          /\ call' = [call EXCEPT !.written = TRUE, !.heap[call.result[j]] = g]
    /\ UNCHANGED world_vars

\* Population._get_normalized_fitnesses
CallNormalize ==
    /\ call.op = "normalize" /\ ~call.done
    /\ call' = [call EXCEPT !.done = TRUE,
                            !.result = GetNormalizedFitnesses(call.fitnesses)]
    /\ UNCHANGED world_vars

\* Population.roulette_wheel_select
CallSelect ==
    /\ call.op = "select" /\ ~call.done
    /\ call' = [call EXCEPT !.done = TRUE,
                            !.result = RouletteWheelSelect(call.fitnesses,
                                           call.rand_index, call.pick)]
    /\ UNCHANGED world_vars

NextCalls ==
    \/ CallCrossover
    \/ CallMutate
    \/ WriteGene
    \/ CallNormalize
    \/ CallSelect

\* the genetic operators called on their own
SpecCalls == InitCalls /\ [][NextCalls]_vars

----------------------------------------------------------------------------
(***************************************************************************)
(* Properties.                                                             *)
(***************************************************************************)

\* a transition of step(): it advances the step counter or the generation
IsStep ==
    generation_step' # generation_step \/ current_generation' # current_generation

\* a transition of step() that ended a generation
EndedGeneration == current_generation' # current_generation

\* a rocket as _spawn_generation leaves it in slot i
IsFresh(r, i) ==
    /\ r.current_step = 0
    /\ r.pos = StartPositions[i]
    /\ r.trail = <<>>
    /\ ~r.has_reached_target

\* the fitness _calculate_success_fitness gives a rocket that arrived at step
SuccessFitness(dna_length, step) ==
    (FITNESS_TARGET_REWARD + (dna_length - step) * FITNESS_BONUS_PER_STEP) * FitScale

\* C1: every genome of the population and of every live rocket has exactly
\* dna_length genes, and crossover and mutation of the live genomes return
\* genomes of that length, whatever the split point and the mutation draws.
GenomeLengthInvariant ==
    /\ \A i \in 1..Len(dnas) : Len(dnas[i]) = DnaLength
    /\ \A i \in 1..Len(rockets) : Len(rockets[i].dna) = DnaLength
    /\ \A i, j \in 1..Len(rockets) : \A point \in 0..(DnaLength - 1) :
          LET child == Crossover(rockets[i].dna, rockets[j].dna, point)
          IN /\ Len(child) = Len(rockets[i].dna)
             /\ \A draws \in [1..DnaLength -> RandomDraws] :
                   Len(Mutate(child, mutation_rate, draws, rockets[j].dna)) = Len(child)

\* C1 witness: a population bred by crossover and mutation at rate 0.5.
GenomeLengthWitness ==
    /\ last_evolution.dnas = "bred"
    /\ mutation_rate = 50
    /\ Len(dnas) = PopulationSize
    /\ \E i \in 1..Len(rockets) : rockets[i].dna # rockets[1].dna

\* C2: the live rockets are exactly one per start position, all spawned by
\* the current generation; a step() ends a generation exactly when the
\* end-of-generation predicate holds, and then, in that same transition, the
\* rockets are fresh, the step counter is 0 and the generation index is one
\* higher.
GenerationLifecycle ==
    [][/\ Len(rockets) = PopulationSize
       /\ Len(rockets') = PopulationSize
       /\ \A i \in 1..Len(rockets) : rockets[i].born = current_generation
       /\ \A i \in 1..Len(rockets') : rockets'[i].born = current_generation'
       /\ IsStep =>
            /\ EndedGeneration <=> EndsGeneration
            /\ EndedGeneration =>
                  /\ \A i \in 1..Len(rockets') : IsFresh(rockets'[i], i)
                  /\ generation_step' = 0
                  /\ current_generation' = current_generation + 1
                  /\ last_evolution'.dnas = "bred"]_vars

\* C2 witness: a second generation has been spawned after the first ran its
\* rockets to the end.
GenerationLifecycleWitness ==
    /\ current_generation = 2
    /\ generation_step = 0
    /\ last_evolution.finished = PopulationSize
    /\ target # NoTarget

\* C3: is_generation_complete() is true after a step() that ended a
\* generation and false after a step() that did not.
CompleteFlagReportsLastStep ==
    IsGenerationComplete <=> last_evolution.finished # None

\* C4, as claimed: a generation that ends by the all-agents-finished
\* condition ends only when no rocket has fuel left.
EndsOnlyWhenFuelExhausted ==
    [][EndedGeneration =>
          \/ rockets = <<>>
          \/ generation_step + 1 >= MaxStepsPerGeneration
          \/ \A i \in 1..Len(rockets) :
                Update(rockets[i]).current_step >= rockets[i].dna_length]_vars

\* a rocket is finished when it has reached the target or has no fuel left
IsFinished(r) == r.has_reached_target \/ r.current_step >= r.dna_length

\* C4, amended: below the step cap a step() ends the generation exactly when
\* every rocket has reached the target or has no fuel left, so a generation
\* whose rockets all arrive early ends at that step with fuel remaining.
EndsWhenAllReachedOrExhausted ==
    [][(IsStep /\ rockets # <<>> /\ generation_step + 1 < MaxStepsPerGeneration) =>
          (EndedGeneration <=>
              \A i \in 1..Len(rockets) : IsFinished(AfterStats.rockets[i]))]_vars

\* C4 witness: a generation that ended before its rockets ran out of fuel.
EndedWithFuelWitness ==
    /\ last_evolution.finished = PopulationSize
    /\ last_evolution.steps < DnaLength

\* C5: the fitness next_generation selects on is 0.1 times the unpenalised
\* fitness for every rocket that ends the generation out of bounds.
SelectionFitnessPenalised ==
    (target # NoTarget /\ EndsGeneration) =>
        \A i \in 1..Len(FinishedRockets) :
            OutOfBounds(FinishedRockets[i]) =>
                FinishedRockets[i].fitness =
                    Penalised(EvaluateFitness(FinishedRockets[i], target.pos).fitness)

\* C6: total_rockets_reached_target is the number of rockets that have
\* reached the target, each counted once.
TotalReachedCountsEachOnce ==
    stats.total_rockets_reached_target = arrivals

\* C7: the stats pass of the next step() marks a rocket not yet reached as
\* reached exactly when its distance to the target is at most the radius of
\* the current target.
ArrivalUsesTargetRadius ==
    target # NoTarget =>
        \A i \in 1..Len(rockets) :
            ~rockets[i].has_reached_target =>
                (AfterStats.rockets[i].has_reached_target <=>
                    SafeDistance(Update(rockets[i]).pos, target.pos) <= target.radius)

\* C8: a rocket marked as reached stays marked with the same arrival step
\* for as long as it lives, and an evaluation after its next update, against
\* any target, keeps the mark and the step and yields reward + (genome
\* length - arrival step) x bonus.
FirstArrivalSticky ==
    [][\A i \in 1..Len(rockets) :
          rockets[i].has_reached_target =>
              /\ (~EndedGeneration /\ Len(rockets') = Len(rockets)) =>
                    /\ rockets'[i].has_reached_target
                    /\ rockets'[i].target_reached_step = rockets[i].target_reached_step
              /\ \A t \in TargetChoices :
                    LET e == EvaluateFitness(Update(rockets[i]), <<t.x, t.y>>)
                    IN /\ e.has_reached_target
                       /\ e.target_reached_step = rockets[i].target_reached_step
                       /\ e.fitness = SuccessFitness(rockets[i].dna_length,
                                                     rockets[i].target_reached_step)]_vars

\* C8 witness: a rocket still marked as reached, with fuel left, after the
\* target was moved out of its reach.
StickyWitness ==
    \E i \in 1..Len(rockets) :
        /\ rockets[i].has_reached_target
        /\ rockets[i].current_step < rockets[i].dna_length
        /\ target # NoTarget
        /\ SafeDistance(rockets[i].pos, target.pos) > TARGET_RADIUS * Scale

\* C9: a generation that ends with zero live rockets replaces the
\* population's genomes by random ones, one per start position.
EmptyGenerationBootstraps ==
    last_evolution.finished = 0 =>
        /\ last_evolution.dnas = "random"
        /\ Len(dnas) = PopulationSize

\* C10: set_target leaves exactly one target in the world, the new one, and
\* changes neither the generation index, the step counter, the statistics,
\* the population's genomes nor any live rocket.
SetTargetFrame ==
    [][(target' # target \/ target_entities' # target_entities) =>
          /\ Len(target_entities') = 1
          /\ target' = target_entities'[1]
          /\ \E t \in TargetChoices : target' = NewTarget(<<t.x, t.y>>, t.radius)
          /\ UNCHANGED <<current_generation, generation_step, stats, dnas,
                         rockets, mutation_rate>>]_vars

\* C10 witness: a target set in the middle of a generation that had run
\* without one, and then replaced by another.
SetTargetWitness ==
    /\ generation_step = 1
    /\ stats.best_distance_achieved = Inf
    /\ target # NoTarget
    /\ target.radius # DEFAULT_TARGET_RADIUS * Scale
    /\ Len(target_entities) = 1

\* the statistics _calculate_rocket_stats writes
PassStats(st) ==
    <<st.best_distance_achieved, st.rockets_reached_current_gen,
      st.best_fitness_current_gen, st.total_rockets_reached_target>>

\* C11: while no target is set a step() is always possible; it leaves the
\* distance, fitness and reached statistics as they were, and every rocket
\* with the fitness it had, through the stats pass and through the final
\* evaluation; and the generation still ends when the fuel is spent, breeds
\* the next population from the finished rockets and respawns one fresh
\* rocket per start position.
NoTargetIsNoError ==
    [][(IsStep /\ target = NoTarget) =>
          LET after == AfterStats
              finished == FinalEvaluation(after.rockets, target)
          IN /\ PassStats(stats') = PassStats(stats)
             /\ PassStats(after.stats) = PassStats(stats)
             /\ \A i \in 1..Len(rockets) :
                   /\ after.rockets[i].fitness = rockets[i].fitness
                   /\ finished[i].fitness = rockets[i].fitness
             /\ EndedGeneration <=> generation_step + 1 = DnaLength
             /\ IF EndedGeneration
                THEN /\ last_evolution' = Evolution(finished, DnaLength)
                     /\ last_evolution'.dnas = "bred"
                     /\ Len(dnas') = PopulationSize
                     /\ \A i \in 1..Len(dnas') :
                           dnas'[i] \in ChildDNAs(finished, DnaLength, mutation_rate)
                     /\ Len(rockets') = PopulationSize
                     /\ \A i \in 1..Len(rockets') :
                           /\ IsFresh(rockets'[i], i)
                           /\ rockets'[i].dna = dnas'[i]
                           /\ rockets'[i].fitness = 0
                ELSE \A i \in 1..Len(rockets) :
                        rockets'[i].fitness = rockets[i].fitness]_vars

\* C11 witness: a second generation, bred and respawned by a world that never
\* had a target, whose statistics are still the initial ones.
NoTargetWitness ==
    /\ target = NoTarget
    /\ target_entities = <<>>
    /\ current_generation = 2
    /\ last_evolution.dnas = "bred"
    /\ last_evolution.steps = DnaLength
    /\ PassStats(stats) = PassStats(InitialStats)
    /\ Len(rockets) = PopulationSize

Min(a, b) == IF a < b THEN a ELSE b

\* C12: after n updates of an active rocket with genome length L the step
\* cursor is min(n, L), so the remaining fuel L - cursor is never negative;
\* the acceleration left by the n-th update is genome[n-1] (0-based) when
\* n <= L and the zero vector when n > L; and the trail is the
\* min(n, MAX_TRAIL_LENGTH) most recent positions, oldest first.
FuelAndTrailBookkeeping ==
    \A i \in 1..Len(rockets) :
        LET r == rockets[i]
            n == Len(update_log)
            kept == Min(n, MAX_TRAIL_LENGTH)
        IN r.is_active =>
              /\ r.current_step = Min(n, r.dna_length)
              /\ r.dna_length - r.current_step >= 0
              /\ n >= 1 => r.acc = IF n <= r.dna_length THEN r.dna[n] ELSE Zero2
              /\ Len(r.trail) = kept
              /\ \A j \in 1..kept : r.trail[j] = update_log[n - kept + j]
              /\ n >= 1 => r.trail[kept] = r.pos

\* C12 witness: a rocket updated more often than its genome is long and more
\* often than the trail holds positions, so that it coasts without thrust
\* and the trail has dropped its oldest positions.
FuelAndTrailWitness ==
    /\ Len(update_log) > MAX_TRAIL_LENGTH
    /\ Len(rockets) = 1
    /\ rockets[1].dna_length = DnaLength
    /\ rockets[1].current_step = DnaLength
    /\ rockets[1].acc = Zero2
    /\ Len(rockets[1].trail) = MAX_TRAIL_LENGTH
    /\ rockets[1].trail[1] # update_log[1]

\* C13: for parents a and b of equal length L >= 1 and every split index k
\* in 0..L-1, every one of which can be drawn, the child has L genes: at
\* positions 0..k-1 those of a, at positions k..L-1 those of b.
CrossoverBoundary ==
    (call.op = "crossover" /\ call.done) =>
        LET L == Len(call.genes)
        IN /\ Len(call.other) = L /\ L >= 1
           /\ call.point \in 0..(L - 1)
           /\ CrossoverPoints(call.genes) = 0..(L - 1)
           /\ Len(call.result) = L
           /\ \A j \in 1..L :
                 call.result[j] = IF j <= call.point THEN call.genes[j]
                                  ELSE call.other[j]

\* C13 witness: a crossover at the last split index of two parents that
\* differ at every position, whose child is neither parent.
CrossoverWitness ==
    /\ call.op = "crossover" /\ call.done
    /\ Len(call.genes) = MaxLen
    /\ call.point = MaxLen - 1
    /\ \A j \in 1..MaxLen : call.genes[j] # call.other[j]
    /\ call.result # call.genes
    /\ call.result # call.other

\* the values of the genes of a genome of gene objects
GeneValues(heap, genes) == [j \in 1..Len(genes) |-> heap[genes[j]]]

\* C14: mutate returns one gene per position: where the position's draw is
\* below the rate a freshly drawn gene, elsewhere a gene value-equal to the
\* input's. No gene object of the result is a gene object of the input, so
\* writing to a gene of the result never changes the input. With rate 0 the
\* result is value-equal to the input, with rate 1 every position is redrawn.
MutatePerGeneAndCopies ==
    (call.op = "mutate" /\ call.done) =>
        LET L == Len(call.genes)
            redrawn == {j \in 1..L : call.draws[j] < call.rate}
        IN /\ Len(call.result) = L
           /\ \A j, k \in 1..L : call.result[j] # call.genes[k]
           /\ \A j, k \in 1..L : j # k => call.result[j] # call.result[k]
           /\ GeneValues(call.heap, call.genes) = call.input
           /\ call.rate = 0 => redrawn = {}
           /\ call.rate = 100 => redrawn = 1..L
           /\ ~call.written =>
                 /\ \A j \in 1..L :
                       call.heap[call.result[j]] =
                           IF j \in redrawn THEN call.fresh[j] ELSE call.input[j]
                 /\ call.rate = 0 =>
                       GeneValues(call.heap, call.result) = call.input
                 /\ call.rate = 100 =>
                       GeneValues(call.heap, call.result) = call.fresh
                 /\ GeneValues(call.heap, call.result) =
                       Mutate(call.input, call.rate, call.draws, call.fresh)

\* C14 witness: a genome mutated at rate 0, after the caller has changed a
\* gene of the result in place: the result differs from the input now, and
\* the input is as it was.
MutateWitness ==
    /\ call.op = "mutate" /\ call.done /\ call.written
    /\ call.rate = 0
    /\ Len(call.genes) = MaxLen
    /\ GeneValues(call.heap, call.result) # call.input
    /\ GeneValues(call.heap, call.genes) = call.input

\* the running sum of the first j normalised fitnesses
RunningSum(normalized, j) == SeqSum(SubSeq(normalized, 1, j))

\* C15: roulette_wheel_select returns None for an empty list; for a
\* non-empty list with normalised-fitness sum S and a pick in [0, S] it
\* returns the first index at which the running sum of the normalised
\* fitnesses is >= pick; and what it returns is always in 0..len-1.
RouletteSelectsFirstReached ==
    (call.op = "select" /\ call.done) =>
        LET normalized == GetNormalizedFitnesses(call.fitnesses)
            n == Len(call.fitnesses)
            S == SeqSum(normalized)
        IN IF n = 0 THEN call.result = None
           ELSE /\ call.result \in 0..(n - 1)
                /\ (call.pick >= 0 /\ call.pick <= S) =>
                      /\ RunningSum(normalized, call.result + 1) >= call.pick
                      /\ \A j \in 1..call.result :
                            RunningSum(normalized, j) < call.pick

\* C15 witness: a selection among three rockets whose pick is exactly the
\* running sum at the middle rocket, which is selected, the first rocket
\* having a positive share.
RouletteWitness ==
    /\ call.op = "select" /\ call.done
    /\ Len(call.fitnesses) = 3
    /\ call.result = 1
    /\ GetNormalizedFitnesses(call.fitnesses)[1] > 0
    /\ call.pick = RunningSum(GetNormalizedFitnesses(call.fitnesses), 2)
    /\ call.pick < SeqSum(GetNormalizedFitnesses(call.fitnesses))

\* C16: for a non-empty list, rocket i's normalised fitness is
\* (f_i - min) / (max - min) when max > min (on the grid: that quotient
\* rounded down) and 1.0 for every rocket when all fitnesses are equal; every
\* normalised value lies in [0, 1], and the divisor is never zero.
NormalisationFormula ==
    (call.op = "normalize" /\ call.done /\ call.fitnesses # <<>>) =>
        LET fs == call.fitnesses
            idx == 1..Len(fs)
            lo == CHOOSE m \in {fs[i] : i \in idx} : \A i \in idx : m <= fs[i]
            hi == CHOOSE m \in {fs[i] : i \in idx} : \A i \in idx : m >= fs[i]
        IN /\ Len(call.result) = Len(fs)
           /\ \A i \in idx : call.result[i] >= 0 /\ call.result[i] <= NormScale
           /\ IF hi > lo
              THEN \A i \in idx :
                      /\ hi - lo # 0
                      /\ call.result[i] * (hi - lo) <= (fs[i] - lo) * NormScale
                      /\ (call.result[i] + 1) * (hi - lo) > (fs[i] - lo) * NormScale
                      /\ fs[i] = hi => call.result[i] = NormScale
                      /\ fs[i] = lo => call.result[i] = 0
              ELSE \A i \in idx : call.result[i] = NormScale

\* C16 witness: the fitnesses 5 and 5 normalise to [1.0, 1.0].
NormalisationWitness ==
    /\ call.op = "normalize" /\ call.done
    /\ call.fitnesses = <<5 * FitScale, 5 * FitScale>>
    /\ call.result = <<NormScale, NormScale>>

\* every rocket of rs that has reached the target has a strictly higher
\* fitness than every rocket of rs that has not
ReachedDominate(rs) ==
    \A i, j \in 1..Len(rs) :
        (rs[i].has_reached_target /\ ~rs[j].has_reached_target) =>
            rs[i].fitness > rs[j].fitness

\* C17: with the default constants, after every stats pass against a target
\* (the one of the next step(), and the one that left the current rockets)
\* every rocket that has reached the target has a strictly higher fitness
\* than every rocket that has not, penalised or not.
ArrivalFitnessDominance ==
    /\ ReachedDominate(rockets)
    /\ target # NoTarget => ReachedDominate(AfterStats.rockets)

\* C17 witness: a stats pass that leaves a rocket that has reached the target
\* out of bounds, its success fitness penalised below the reward, next to a
\* rocket that has not reached it and has a positive fitness.
DominanceWitness ==
    /\ target # NoTarget
    /\ \E i, j \in 1..Len(rockets) :
          LET rs == AfterStats.rockets
          IN /\ rs[i].has_reached_target /\ OutOfBounds(rs[i])
             /\ rs[i].fitness < FITNESS_TARGET_REWARD * FitScale
             /\ ~rs[j].has_reached_target
             /\ rs[j].fitness > 0

\* C19: after the stats pass of a step() with a target set, the fitness of a
\* rocket that is out of bounds is 0.1 times the fitness evaluate_fitness
\* has just recomputed for it (to the nearest grid point), whatever its
\* fitness was before and however long it has been out of bounds, and the
\* fitness of a rocket in bounds is the recomputed fitness itself.
PenaltyOncePerPass ==
    target # NoTarget =>
        \A i \in 1..Len(rockets) :
            LET recomputed == EvaluateFitness(Update(rockets[i]), target.pos).fitness
                after == AfterStats.rockets[i]
            IN IF OutOfBounds(after)
               THEN /\ 10 * after.fitness - recomputed <= 5
                    /\ recomputed - 10 * after.fitness <= 5
               ELSE after.fitness = recomputed

\* C19 witness: a rocket that a stats pass has already penalised, scored
\* above zero, and that the next stats pass finds out of bounds again.
PenaltyWitness ==
    /\ target # NoTarget
    /\ \E i \in 1..Len(rockets) :
          /\ OutOfBounds(rockets[i])
          /\ rockets[i].fitness > 0
          /\ rockets[i].fitness < CalculateDistanceFitness(
                                      SafeDistance(rockets[i].pos, target.pos))
          /\ OutOfBounds(AfterStats.rockets[i])
          /\ AfterStats.rockets[i].fitness >= 10

\* C18: a generation that ends with finished rockets leaves exactly one
\* child genome per start position. The two parents of a child are drawn
\* independently, so every pair of selectable rockets, a rocket paired with
\* itself included, can be the parents. With mutation rate 0 the gene at
\* every position j of every child is the gene at position j of one of the
\* finished rockets, and a child of a rocket paired with itself has that
\* rocket's genome, whatever the split point.
ReproductionInheritsByPosition ==
    [][(EndedGeneration /\ FinishedRockets # <<>>) =>
          LET finished == FinishedRockets
              parents == 1..Len(finished)
              selectable == {i + 1 : i \in SelectableIndices(
                                [i \in parents |-> finished[i].fitness])}
              children == ChildDNAs(finished, DnaLength, mutation_rate)
          IN /\ Len(dnas') = PopulationSize
             /\ Len(dnas') = Len(StartPositions)
             /\ selectable # {} /\ selectable \subseteq parents
             /\ \A c \in 1..Len(dnas') : dnas'[c] \in children
             /\ mutation_rate = 0 =>
                   /\ \A c \in 1..Len(dnas') : \A j \in 1..DnaLength :
                         \E i \in parents : dnas'[c][j] = finished[i].dna[j]
                   /\ \A p1, p2 \in selectable :
                         \A k \in CrossoverPoints(finished[p1].dna) :
                            /\ Crossover(finished[p1].dna, finished[p2].dna, k)
                                  \in children
                            /\ p1 = p2 =>
                                  Crossover(finished[p1].dna, finished[p2].dna, k)
                                      = finished[p1].dna
                   /\ \A p \in selectable : finished[p].dna \in children]_vars

\* C18 witness: a population bred at mutation rate 0 whose two children are
\* different genomes, one of them mixed from two different genes.
ReproductionWitness ==
    /\ mutation_rate = 0
    /\ last_evolution.dnas = "bred"
    /\ last_evolution.finished = PopulationSize
    /\ Len(dnas) = PopulationSize
    /\ dnas[1] # dnas[2]
    /\ \E c \in 1..Len(dnas) : dnas[c][1] # dnas[c][DnaLength]

\* the genome of the rocket in every slot is the population's genome of
\* that slot
GenomesMatchPopulation(rs, population) ==
    /\ Len(rs) = Len(population)
    /\ \A i \in 1..Len(rs) : rs[i].dna = population[i]

\* C20: between step() calls the genome of the live rocket in slot i equals
\* the population's genome i; updating a rocket leaves its genome as it was,
\* and so does a step() that ends no generation, which leaves the
\* population's genomes too; a rocket's or the population's genomes change
\* only in a step() that ends the generation and respawns the rockets.
GenomesFixedForLifetime ==
    [][/\ GenomesMatchPopulation(rockets, dnas)
       /\ GenomesMatchPopulation(rockets', dnas')
       /\ LET after == AfterStats.rockets
              finished == FinalEvaluation(after, target)
          IN \A i \in 1..Len(rockets) :
                /\ Update(rockets[i]).dna = rockets[i].dna
                /\ after[i].dna = rockets[i].dna
                /\ finished[i].dna = rockets[i].dna
       /\ ~EndedGeneration =>
             /\ dnas' = dnas
             /\ Len(rockets') = Len(rockets)
             /\ \A i \in 1..Len(rockets) :
                   /\ rockets'[i].dna = rockets[i].dna
                   /\ rockets'[i].born = rockets[i].born
       /\ EndedGeneration =>
             \A i \in 1..Len(rockets') :
                /\ rockets'[i].born = current_generation'
                /\ rockets'[i].current_step = 0]_vars

\* C20 witness: a second generation in flight whose genomes were bred and
\* differ from slot to slot, each rocket carrying its slot's genome after a
\* step() that used the first gene.
GenomesWitness ==
    /\ current_generation = 2
    /\ generation_step = 1
    /\ last_evolution = NoEvolution
    /\ Len(rockets) = PopulationSize
    /\ dnas[1] # dnas[2]
    /\ \A i \in 1..Len(rockets) :
          /\ rockets[i].current_step = 1
          /\ rockets[i].dna = dnas[i]
          /\ rockets[i].acc = dnas[i][1]

\* C21: between step() calls every live rocket's cursor equals the step
\* counter, which is below dna_length, so get_generation_progress() is below
\* 1.0. In a step() every rocket is updated with fuel left and its cursor
\* then equals the incremented step counter; the generation ends exactly
\* when every rocket has reached the target or the step is dna_length,
\* whichever comes first, and the step cap is not reached at that step.
EndsByFuelNeverByCap ==
    [][/\ \A i \in 1..Len(rockets) : rockets[i].current_step = generation_step
       /\ \A i \in 1..Len(rockets') : rockets'[i].current_step = generation_step'
       /\ generation_step < DnaLength /\ generation_step' < DnaLength
       /\ GetGenerationProgress < NormScale
       /\ IsStep =>
             LET after == AfterStats.rockets
             IN /\ \A i \in 1..Len(rockets) :
                      /\ rockets[i].current_step < rockets[i].dna_length
                      /\ after[i].current_step = generation_step + 1
                      /\ after[i].acc = rockets[i].dna[generation_step + 1]
                /\ EndedGeneration <=>
                      \/ \A i \in 1..Len(after) : after[i].has_reached_target
                      \/ generation_step + 1 = DnaLength
                /\ generation_step + 1 < MaxStepsPerGeneration
                /\ EndedGeneration =>
                      /\ last_evolution'.steps = generation_step + 1
                      /\ last_evolution'.steps <= DnaLength]_vars

\* C21 witness: a generation with a target that ended at step dna_length,
\* by fuel, with a rocket that had not reached the target.
EndedByFuelWitness ==
    /\ target # NoTarget
    /\ generation_step = 0
    /\ last_evolution.steps = DnaLength
    /\ last_evolution.finished = PopulationSize
    /\ stats.rockets_reached_current_gen < PopulationSize
    /\ stats.best_distance_achieved < Inf
    /\ GetGenerationProgress = 0

\* C22: for every non-empty list some rocket normalises to 1.0, so the sum
\* of the normalised fitnesses is at least 1 and never 0: the zero-sum
\* branch is not taken, and the index returned does not depend on what
\* random.randint would return there. For every pick in [0, sum] the running
\* sum reaches pick at some index of the loop, the last at the latest, so the
\* fallback after the loop is not taken.
DegenerateBranchesUnreachable ==
    (call.op = "select" /\ call.done /\ call.fitnesses # <<>>) =>
        LET normalized == GetNormalizedFitnesses(call.fitnesses)
            n == Len(call.fitnesses)
            S == SeqSum(normalized)
        IN /\ \E i \in 1..n : normalized[i] = NormScale
           /\ S >= NormScale
           /\ S # 0
           /\ \A ri \in 0..(n - 1) :
                 RouletteWheelSelect(call.fitnesses, ri, call.pick) = call.result
           /\ RunningSum(normalized, n) = S
           /\ (call.pick >= 0 /\ call.pick <= S) =>
                 /\ \E j \in 1..n : RunningSum(normalized, j) >= call.pick
                 /\ RunningSum(normalized, call.result + 1) >= call.pick

\* C22 witness: three rockets that all have fitness 0, whose raw fitness sum
\* is 0 while the normalised sum is 3, and a pick equal to that sum, which
\* selects the last rocket inside the loop.
DegenerateBranchesWitness ==
    /\ call.op = "select" /\ call.done
    /\ call.fitnesses = <<0, 0, 0>>
    /\ SeqSum(call.fitnesses) = 0
    /\ call.pick = 3 * NormScale
    /\ call.rand_index = 0
    /\ call.result = 2

====
